---- MODULE Spec2Model ----
(***************************************************************************)
(* State-machine model of the bump scheduler: the sqlite-backed Store      *)
(* (src/database.py) and the bump cycle driver (src/bump_service.py).      *)
(* Times are Unix seconds.  Python's None and SQL NULL for an integer are  *)
(* written 0 where the code only tests truthiness, and "NULL" for text.    *)
(***************************************************************************)
EXTENDS Integers, Sequences, FiniteSets, TLC

(* ------------------------------------------------------------------ *)
(* Configuration (config.py is imported, bump_service.py:14-19).       *)
(* ------------------------------------------------------------------ *)
BUMP_INTERVAL == 200
CHECK_INTERVAL == 30
API_DELAY == 5
RETRY_DELAYS == <<10, 20>>
MAX_CONSECUTIVE_FAILURES == 3

(* Literals of the source. *)
JITTER_MIN == 30
JITTER_MAX == 300
RATE_LIMIT_DELAY == 120
LOOP_ERROR_SLEEP == 60

(* ------------------------------------------------------------------ *)
(* Bounds of the model.                                                *)
(* ------------------------------------------------------------------ *)
StartTime == 1000
Horizon == 90

MaxTime == StartTime + Horizon
ThreadIds == {1, 2}
(* The configured sets a start of the process may find: thread 1 stays *)
(* configured, thread 2 comes and goes.                                *)
Configs == {{1}, {1, 2}}

Min(a, b) == IF a <= b THEN a ELSE b

VARIABLES
    now,        \* the wall clock, int(time.time())
    config,     \* THREAD_IDS of the running process
    threads,    \* table threads: thread_id -> row
    history,    \* table bump_history, in insertion order
    running,    \* AsyncBumpService.running
    pc,         \* position of bump_loop
    ready,      \* run_cycle: the list returned by get_threads_ready_for_bump
    idx,        \* run_cycle: position of the for loop in ready (1-based)
    results,    \* run_cycle: results
    response,   \* _bump_thread: the HTTP response of the last bump call
    info,       \* _bump_thread: what _get_thread_info returned after a 403
    work        \* the writing connection's transaction, while it is open

vars == <<now, config, threads, history, running, pc, ready, idx, results,
          response, info, work>>

(* ------------------------------------------------------------------ *)
(* The Store.                                                          *)
(* ------------------------------------------------------------------ *)

(* Column defaults of CREATE TABLE threads; columns without a DEFAULT  *)
(* are NULL.                                                           *)
DefaultRow(tid) ==
    [thread_id |-> tid, title |-> "NULL", last_bump_time |-> 0,
     next_bump_time |-> 0, bump_count |-> 0, last_error |-> "NULL",
     consecutive_failures |-> 0, is_active |-> 1,
     created_at |-> 0, updated_at |-> 0]

Columns == DOMAIN DefaultRow(1)

(* kwargs laid over a row: only the named columns change. *)
SetColumns(row, kwargs) ==
    [c \in Columns |-> IF c \in DOMAIN kwargs THEN kwargs[c] ELSE row[c]]

get_thread(th, tid) == tid \in DOMAIN th

upsert_thread(th, tid, kwargs, t) ==
    IF get_thread(th, tid)
    THEN [th EXCEPT ![tid] = [SetColumns(@, kwargs) EXCEPT !.updated_at = t]]
    ELSE [x \in DOMAIN th \cup {tid} |->
            IF x = tid
            THEN [SetColumns(DefaultRow(tid), kwargs)
                    EXCEPT !.created_at = t, !.updated_at = t]
            ELSE th[x]]

(* OrderByNextBump with a fault seeded: no ORDER BY, rows come in      *)
(* rowid order.                                                        *)
RECURSIVE OrderByRowid(_)
OrderByRowid(rows) ==
    IF rows = {} THEN <<>>
    ELSE LET first == CHOOSE r \in rows : \A o \in rows : r.thread_id <= o.thread_id
         IN  <<first>> \o OrderByRowid(rows \ {first})

(* ORDER BY next_bump_time ASC; sqlite walks idx_next_bump, whose      *)
(* entries are (next_bump_time, rowid), so ties come in thread_id      *)
(* order.                                                              *)
Before(a, b) ==
    \/ a.next_bump_time < b.next_bump_time
    \/ a.next_bump_time = b.next_bump_time /\ a.thread_id < b.thread_id

RECURSIVE OrderByNextBump(_)
OrderByNextBump(rows) ==
    IF rows = {} THEN <<>>
    ELSE LET first == CHOOSE r \in rows : \A o \in rows \ {r} : Before(r, o)
         IN  <<first>> \o OrderByNextBump(rows \ {first})

(* get_threads_ready_for_bump with a fault seeded: WHERE loses         *)
(* is_active = 1.                                                      *)
get_threads_ready_ignoring_active(th, t) ==
    OrderByNextBump({th[x] : x \in {y \in DOMAIN th : th[y].next_bump_time <= t}})

get_threads_ready_for_bump(th, t) ==
    OrderByNextBump({th[x] : x \in {y \in DOMAIN th :
        th[y].is_active = 1 /\ th[y].next_bump_time <= t}})

RECURSIVE OrderByThreadId(_)
OrderByThreadId(rows) ==
    IF rows = {} THEN <<>>
    ELSE LET first == CHOOSE r \in rows : \A o \in rows : r.thread_id <= o.thread_id
         IN  <<first>> \o OrderByThreadId(rows \ {first})

get_all_threads(th) == OrderByThreadId({th[x] : x \in DOMAIN th})

(* UpdateSuccess with a fault seeded: the failure state is not cleared. *)
UpdateSuccessKeepsFailures(th, tid, next_bump_time, t) ==
    IF tid \notin DOMAIN th THEN th
    ELSE [th EXCEPT ![tid] = [@ EXCEPT
            !.last_bump_time = t,
            !.next_bump_time = next_bump_time,
            !.bump_count = @ + 1,
            !.updated_at = t]]

(* The UPDATE statements; WHERE thread_id = ? matches no row when the  *)
(* thread is absent.                                                   *)
UpdateSuccess(th, tid, next_bump_time, t) ==
    IF tid \notin DOMAIN th THEN th
    ELSE [th EXCEPT ![tid] = [@ EXCEPT
            !.last_bump_time = t,
            !.next_bump_time = next_bump_time,
            !.bump_count = @ + 1,
            !.last_error = "NULL",
            !.consecutive_failures = 0,
            !.updated_at = t]]

UpdateFailure(th, tid, error, next_retry_time, t) ==
    IF tid \notin DOMAIN th THEN th
    ELSE [th EXCEPT ![tid] = [@ EXCEPT
            !.next_bump_time = next_retry_time,
            !.last_error = error,
            !.consecutive_failures = @ + 1,
            !.updated_at = t]]

InsertHistory(hist, tid, t, success, message) ==
    Append(hist, [thread_id |-> tid, bump_time |-> t,
                  success |-> success, message |-> message])

(* Visible with a fault seeded: every statement is committed on its    *)
(* own (isolation_level None).                                         *)
VisibleAutocommit(committed, uncommitted) == uncommitted

(* _get_connection: sqlite3 opens a transaction before the first       *)
(* UPDATE or INSERT of a connection and conn.commit() ends it after    *)
(* the with block, so what other connections read after a statement    *)
(* that is not yet committed is the committed table.                   *)
Visible(committed, uncommitted) == committed

(* Both statements run on one connection and are committed together.   *)
record_bump_success(db, tid, message, next_bump_time, t) ==
    [threads |-> UpdateSuccess(db.threads, tid, next_bump_time, t),
     history |-> InsertHistory(db.history, tid, t, 1, message)]

record_bump_failure(db, tid, error, next_retry_time, t) ==
    [threads |-> UpdateFailure(db.threads, tid, error, next_retry_time, t),
     history |-> InsertHistory(db.history, tid, t, 0, error)]

deactivate_thread(th, tid, t) ==
    IF tid \notin DOMAIN th THEN th
    ELSE [th EXCEPT ![tid] = [@ EXCEPT !.is_active = 0, !.updated_at = t]]

(* activate_thread with a fault seeded: the failure count survives the *)
(* reactivation.                                                       *)
activate_thread_keeps_failures(th, tid, t) ==
    IF tid \notin DOMAIN th THEN th
    ELSE [th EXCEPT ![tid] = [@ EXCEPT !.is_active = 1, !.updated_at = t]]

(* activate_thread with a fault seeded: a reactivated thread is made   *)
(* due at once.                                                        *)
activate_thread_due_now(th, tid, t) ==
    IF tid \notin DOMAIN th THEN th
    ELSE [th EXCEPT ![tid] = [@ EXCEPT !.is_active = 1,
                                       !.consecutive_failures = 0,
                                       !.next_bump_time = t,
                                       !.updated_at = t]]

activate_thread(th, tid, t) ==
    IF tid \notin DOMAIN th THEN th
    ELSE [th EXCEPT ![tid] = [@ EXCEPT !.is_active = 1,
                                       !.consecutive_failures = 0,
                                       !.updated_at = t]]

(* ------------------------------------------------------------------ *)
(* The remote API, as the driver sees it.                              *)
(* ------------------------------------------------------------------ *)

(* A bump response: its status, whether the body says status 'ok',     *)
(* whether the body has 'errors'.  One response for each branch of     *)
(* _bump_thread; an exception of the call leaves the same result as    *)
(* the last branch, but for the message text.                          *)
Resp(status, ok, errors) == [status |-> status, ok |-> ok, errors |-> errors]

NoResponse == Resp(0, FALSE, FALSE)

Responses ==
    { Resp(200, TRUE, FALSE), Resp(403, FALSE, TRUE), Resp(429, FALSE, FALSE),
      Resp(401, FALSE, FALSE), Resp(500, FALSE, FALSE) }

(* _get_thread_info: None, or the thread's title and                   *)
(* permissions.bump.next_available_time (0: missing or falsy), which   *)
(* the remote may report in the past or in the future.                 *)
NoInfo == [found |-> FALSE, title |-> "Unknown", next_available_time |-> 0]

Infos(t) ==
    {NoInfo} \cup {[found |-> TRUE, title |-> "Title", next_available_time |-> n] :
                    n \in {t - 10, t + 250}}

(* random.randint(30, 300), sampled at its ends. *)
Jitters == {JITTER_MIN, JITTER_MAX}

ErrorMessage(status) ==
    CASE status = 500 -> "Error 500"
      [] status = 403 -> "Error 403"
      [] status = 200 -> "Error 200"
      [] OTHER -> "Error"

TooManyErrors(message) ==
    CASE message = "Error 500" -> "Too many errors: Error 500"
      [] message = "Rate Limit" -> "Too many errors: Rate Limit"
      [] message = "" -> "Too many errors: "
      [] OTHER -> "Too many errors"

(* ------------------------------------------------------------------ *)
(* AsyncBumpService.                                                   *)
(* ------------------------------------------------------------------ *)

(* bump_thread with a fault seeded: a cooldown never takes the         *)
(* remote's time.                                                      *)
bump_thread_ignores_remote(resp, inf, jitter, t) ==
    LET result == [success |-> FALSE, message |-> "", next_time |-> 0,
                   is_cooldown |-> FALSE]
    IN  IF resp.status = 200 /\ resp.ok
        THEN [result EXCEPT !.success = TRUE, !.message = "Bumped",
                            !.next_time = t + BUMP_INTERVAL + jitter]
        ELSE IF resp.status = 403 /\ resp.errors
        THEN [result EXCEPT !.message = "cooldown", !.is_cooldown = TRUE,
                            !.next_time = t + BUMP_INTERVAL]
        ELSE IF resp.status = 429
        THEN [result EXCEPT !.message = "Rate Limit",
                            !.next_time = t + RATE_LIMIT_DELAY]
        ELSE IF resp.status = 401
        THEN result
        ELSE [result EXCEPT !.message = ErrorMessage(resp.status)]

(* The result dict of _bump_thread; next_time 0 is None. *)
bump_thread(resp, inf, jitter, t) ==
    LET result == [success |-> FALSE, message |-> "", next_time |-> 0,
                   is_cooldown |-> FALSE]
    IN  IF resp.status = 200 /\ resp.ok
        THEN [result EXCEPT !.success = TRUE, !.message = "Bumped",
                            !.next_time = t + BUMP_INTERVAL + jitter]
        ELSE IF resp.status = 403 /\ resp.errors
        THEN [result EXCEPT !.message = "cooldown", !.is_cooldown = TRUE,
                            !.next_time =
                                IF inf.found /\ inf.next_available_time # 0
                                THEN inf.next_available_time
                                ELSE t + BUMP_INTERVAL]
        ELSE IF resp.status = 429
        THEN [result EXCEPT !.message = "Rate Limit",
                            !.next_time = t + RATE_LIMIT_DELAY]
        ELSE IF resp.status = 401
        THEN result
        ELSE [result EXCEPT !.message = ErrorMessage(resp.status)]

(* RunningAfter with a fault seeded: the 401 branch forgets the flag. *)
RunningAfterUnchanged(resp, r) == r

(* self.running after _bump_thread. *)
RunningAfter(resp, r) ==
    IF ~(resp.status = 200 /\ resp.ok)
       /\ ~(resp.status = 403 /\ resp.errors) /\ resp.status # 429
       /\ resp.status = 401
    THEN FALSE ELSE r

(* RetryDelay with a fault seeded: the table is read from its first    *)
(* entry.                                                              *)
RetryDelayFromFirst(consecutive_failures) ==
    RETRY_DELAYS[Min(consecutive_failures - 1, Len(RETRY_DELAYS) - 1) + 1]

RetryDelay(consecutive_failures) ==
    RETRY_DELAYS[Min(consecutive_failures, Len(RETRY_DELAYS) - 1) + 1]

(* process_thread with a fault seeded: no branch for too many          *)
(* failures.                                                           *)
process_thread_no_reset(db, thread, result, t) ==
    LET thread_id == thread.thread_id
        consecutive_failures == thread.consecutive_failures + 1
    IN  IF result.success
        THEN record_bump_success(db, thread_id, result.message, result.next_time, t)
        ELSE IF result.is_cooldown
        THEN [db EXCEPT !.threads = upsert_thread(@, thread_id,
                    [next_bump_time |-> result.next_time,
                     last_error |-> result.message,
                     consecutive_failures |-> 0], t)]
        ELSE record_bump_failure(db, thread_id, result.message,
                                 t + RetryDelay(consecutive_failures), t)

(* process_thread with a fault seeded: the count is compared with ">" *)
(* for ">=".                                                           *)
process_thread_late_reset(db, thread, result, t) ==
    LET thread_id == thread.thread_id
        consecutive_failures == thread.consecutive_failures + 1
    IN  IF result.success
        THEN record_bump_success(db, thread_id, result.message, result.next_time, t)
        ELSE IF result.is_cooldown
        THEN [db EXCEPT !.threads = upsert_thread(@, thread_id,
                    [next_bump_time |-> result.next_time,
                     last_error |-> result.message,
                     consecutive_failures |-> 0], t)]
        ELSE IF consecutive_failures > MAX_CONSECUTIVE_FAILURES
        THEN [db EXCEPT !.threads = upsert_thread(@, thread_id,
                    [next_bump_time |-> t + BUMP_INTERVAL,
                     last_error |-> TooManyErrors(result.message),
                     consecutive_failures |-> 0], t)]
        ELSE record_bump_failure(db, thread_id, result.message,
                                 t + RetryDelay(consecutive_failures), t)

(* The Store after process_thread has applied result to thread, a row  *)
(* of the ready list.                                                  *)
process_thread(db, thread, result, t) ==
    LET thread_id == thread.thread_id
        consecutive_failures == thread.consecutive_failures + 1
    IN  IF result.success
        THEN record_bump_success(db, thread_id, result.message, result.next_time, t)
        ELSE IF result.is_cooldown
        THEN [db EXCEPT !.threads = upsert_thread(@, thread_id,
                    [next_bump_time |-> result.next_time,
                     last_error |-> result.message,
                     consecutive_failures |-> 0], t)]
        ELSE IF consecutive_failures >= MAX_CONSECUTIVE_FAILURES
        THEN [db EXCEPT !.threads = upsert_thread(@, thread_id,
                    [next_bump_time |-> t + BUMP_INTERVAL,
                     last_error |-> TooManyErrors(result.message),
                     consecutive_failures |-> 0], t)]
        ELSE record_bump_failure(db, thread_id, result.message,
                                 t + RetryDelay(consecutive_failures), t)

(* initialize_threads, first loop: the configured ids still to visit,  *)
(* in ascending order; db_threads is the list read at the start, now0  *)
(* the time read at the start, t the clock.                            *)
RECURSIVE AddOrActivate(_, _, _, _, _, _)
AddOrActivate(th, ids, db_threads, infos, now0, t) ==
    IF ids = {} THEN [threads |-> th, now |-> t]
    ELSE LET thread_id == CHOOSE i \in ids : \A j \in ids : i <= j
             rest == ids \ {thread_id}
         IN  IF thread_id \notin DOMAIN db_threads
             THEN LET inf == infos[thread_id]
                      title == IF inf.found THEN inf.title ELSE "Unknown"
                      next_bump == IF inf.found /\ inf.next_available_time # 0
                                   THEN inf.next_available_time ELSE now0
                  IN  AddOrActivate(
                          upsert_thread(th, thread_id,
                              [title |-> title, next_bump_time |-> next_bump], t),
                          rest, db_threads, infos, now0, t + API_DELAY)
             ELSE IF db_threads[thread_id].is_active = 0
             THEN AddOrActivate(activate_thread(th, thread_id, t),
                                rest, db_threads, infos, now0, t)
             ELSE AddOrActivate(th, rest, db_threads, infos, now0, t)

(* DeactivateRemoved with a fault seeded: the test of the second loop  *)
(* is inverted ("in" for "not in").                                    *)
RECURSIVE DeactivateConfigured(_, _, _, _)
DeactivateConfigured(th, ids, config_ids, t) ==
    IF ids = {} THEN th
    ELSE LET tid == CHOOSE i \in ids : \A j \in ids : i <= j
         IN  DeactivateConfigured(
                 IF tid \in config_ids THEN deactivate_thread(th, tid, t) ELSE th,
                 ids \ {tid}, config_ids, t)

(* Second loop: rows read at the start that left the configuration. *)
RECURSIVE DeactivateRemoved(_, _, _, _)
DeactivateRemoved(th, ids, config_ids, t) ==
    IF ids = {} THEN th
    ELSE LET tid == CHOOSE i \in ids : \A j \in ids : i <= j
         IN  DeactivateRemoved(
                 IF tid \notin config_ids THEN deactivate_thread(th, tid, t) ELSE th,
                 ids \ {tid}, config_ids, t)

initialize_threads(th, config_ids, infos, t) ==
    LET first == AddOrActivate(th, config_ids, th, infos, t, t)
        active == {x \in DOMAIN th : th[x].is_active # 0}
    IN  [threads |-> DeactivateRemoved(first.threads, active, config_ids, first.now),
         now |-> first.now]

(* One entry of run_cycle's results. *)
ResultOf(thread, result) ==
    [success |-> result.success, message |-> result.message,
     next_time |-> result.next_time, is_cooldown |-> result.is_cooldown,
     title |-> thread.title, thread_id |-> thread.thread_id]

(* ------------------------------------------------------------------ *)
(* The state machine.                                                  *)
(* ------------------------------------------------------------------ *)

NoWork == [state |-> "none", threads |-> <<>>, result |-> <<>>]

Init ==
    /\ now = StartTime
    /\ config = ThreadIds
    /\ threads = [x \in {} |-> DefaultRow(x)]
    /\ history = <<>>
    /\ running = TRUE
    /\ pc = "start"
    /\ ready = <<>>
    /\ idx = 1
    /\ results = <<>>
    /\ response = NoResponse
    /\ info = NoInfo
    /\ work = NoWork

(* bump_loop: await service.initialize_threads(). *)
InitializeThreads ==
    /\ pc = "start"
    /\ \E infos \in [config \ DOMAIN threads -> Infos(now)] :
         LET after == initialize_threads(threads, config, infos, now)
         IN  /\ after.now <= MaxTime
             /\ threads' = after.threads
             /\ now' = after.now
    /\ pc' = "loop"
    /\ UNCHANGED <<config, history, running, ready, idx, results, response, info, work>>

(* asyncio runs the loop's code from one await to the next without     *)
(* interruption: the signal handler and the clock act only while the   *)
(* loop waits.  pc names the await the loop is at: "loop" (after       *)
(* initialize_threads), "bump" (the bump call), "api_delay" and        *)
(* "check_interval" (the sleeps); "start" and "done" are the ends.     *)
(* "record" is the writing connection between the two statements of a *)
(* record_bump_* call, and "error_sleep" the sleep of bump_loop's      *)
(* except clause.                                                      *)
WakeTime ==
    CASE pc = "check_interval" -> now + CHECK_INTERVAL
      [] pc = "error_sleep" -> now + LOOP_ERROR_SLEEP
      [] OTHER -> now

AtLoopTest == pc \in {"loop", "check_interval", "error_sleep"}

(* while service.running: run_cycle reads the ready list and sends the *)
(* bump call of its first thread, or returns on an empty list.         *)
CycleStart ==
    /\ AtLoopTest
    /\ WakeTime <= MaxTime
    /\ running
    /\ now' = WakeTime
    /\ ready' = get_threads_ready_for_bump(threads, now')
    /\ idx' = 1
    /\ results' = <<>>
    /\ pc' = IF ready' = <<>> THEN "check_interval" ELSE "bump"
    /\ work' = NoWork
    /\ UNCHANGED <<config, threads, history, running, response, info>>

(* while service.running: false, bump_loop returns. *)
LoopExit ==
    /\ AtLoopTest
    /\ WakeTime <= MaxTime
    /\ ~running
    /\ now' = WakeTime
    /\ pc' = "done"
    /\ work' = NoWork
    /\ UNCHANGED <<config, threads, history, running, ready, idx, results,
                   response, info>>

(* NextDispatch with a fault seeded: the for loop has no               *)
(* "if not self.running: break".                                       *)
NextDispatchUnguarded ==
    /\ pc = "api_delay"
    /\ now + API_DELAY <= MaxTime
    /\ idx + 1 <= Len(ready)
    /\ now' = now + API_DELAY
    /\ idx' = idx + 1
    /\ pc' = "bump"
    /\ UNCHANGED <<config, threads, history, running, ready, results, response, info, work>>

(* After asyncio.sleep(API_DELAY): the next thread of ready. *)
NextDispatch ==
    /\ pc = "api_delay"
    /\ now + API_DELAY <= MaxTime
    /\ idx + 1 <= Len(ready)
    /\ running
    /\ now' = now + API_DELAY
    /\ idx' = idx + 1
    /\ pc' = "bump"
    /\ UNCHANGED <<config, threads, history, running, ready, results, response, info, work>>

(* After asyncio.sleep(API_DELAY): if not self.running: break *)
CycleBreak ==
    /\ pc = "api_delay"
    /\ now + API_DELAY <= MaxTime
    /\ idx + 1 <= Len(ready)
    /\ ~running
    /\ now' = now + API_DELAY
    /\ idx' = idx + 1
    /\ pc' = "check_interval"
    /\ UNCHANGED <<config, threads, history, running, ready, results, response, info, work>>

(* After asyncio.sleep(API_DELAY): ready is exhausted. *)
CycleEnd ==
    /\ pc = "api_delay"
    /\ now + API_DELAY <= MaxTime
    /\ idx + 1 > Len(ready)
    /\ now' = now + API_DELAY
    /\ idx' = idx + 1
    /\ pc' = "check_interval"
    /\ UNCHANGED <<config, threads, history, running, ready, results, response, info, work>>

(* The bump call returns and process_thread applies its result. *)
BumpReturns ==
    /\ pc = "bump"
    /\ \E resp \in Responses :
       \E jitter \in IF resp.status = 200 /\ resp.ok THEN Jitters ELSE {JITTER_MIN},
          inf \in IF resp.status = 403 /\ resp.errors THEN Infos(now) ELSE {NoInfo} :
         LET thread == ready[idx]
             result == bump_thread(resp, inf, jitter, now)
             db == process_thread([threads |-> threads, history |-> history],
                                  thread, result, now)
         IN  /\ response' = resp
             /\ info' = inf
             /\ running' = RunningAfter(resp, running)
             /\ threads' = db.threads
             /\ history' = db.history
             /\ results' = Append(results, ResultOf(thread, result))
    /\ pc' = "api_delay"
    /\ UNCHANGED <<now, config, ready, idx, work>>

(* main: signal_handler on SIGINT or SIGTERM; the event loop runs it   *)
(* while bump_loop waits.                                              *)
Signal ==
    /\ pc \notin {"done", "record"}
    /\ running
    /\ running' = FALSE
    /\ UNCHANGED <<now, config, threads, history, pc, ready, idx, results,
                   response, info, work>>

(* The process is started again on the same database file. *)
Restart ==
    /\ pc = "done"
    /\ config' \in Configs
    /\ running' = TRUE
    /\ pc' = "start"
    /\ ready' = <<>>
    /\ idx' = 1
    /\ results' = <<>>
    /\ response' = NoResponse
    /\ info' = NoInfo
    /\ UNCHANGED <<now, threads, history, work>>

(* ------------------------------------------------------------------ *)
(* Storage failures: a Store call of process_thread raises.            *)
(* ------------------------------------------------------------------ *)

(* Whether process_thread applies result with record_bump_success or   *)
(* record_bump_failure, the calls of two statements.                   *)
UsesRecord(thread, result) ==
    \/ result.success
    \/ /\ ~result.is_cooldown
       /\ thread.consecutive_failures + 1 < MAX_CONSECUTIVE_FAILURES

(* The UPDATE of that call. *)
FirstStatement(th, thread, result, t) ==
    IF result.success
    THEN UpdateSuccess(th, thread.thread_id, result.next_time, t)
    ELSE UpdateFailure(th, thread.thread_id, result.message,
                       t + RetryDelay(thread.consecutive_failures + 1), t)

(* The bump call returns and record_bump_* has executed its UPDATE. *)
RecordUpdate ==
    /\ pc = "bump"
    /\ \E resp \in Responses :
       \E jitter \in IF resp.status = 200 /\ resp.ok THEN Jitters ELSE {JITTER_MIN},
          inf \in IF resp.status = 403 /\ resp.errors THEN Infos(now) ELSE {NoInfo} :
         LET thread == ready[idx]
             result == bump_thread(resp, inf, jitter, now)
         IN  /\ UsesRecord(thread, result)
             /\ response' = resp
             /\ info' = inf
             /\ running' = RunningAfter(resp, running)
             /\ work' = [state |-> "open",
                         threads |-> FirstStatement(threads, thread, result, now),
                         result |-> result]
             /\ threads' = Visible(threads, work'.threads)
    /\ pc' = "record"
    /\ UNCHANGED <<now, config, history, ready, idx, results>>

(* The INSERT is executed and conn.commit() makes both visible. *)
RecordCommit ==
    /\ pc = "record"
    /\ LET thread == ready[idx]
           db == process_thread([threads |-> threads, history |-> history],
                                thread, work.result, now)
       IN  /\ threads' = [x \in DOMAIN threads |->
                            IF x = thread.thread_id THEN work.threads[x]
                            ELSE threads[x]]
           /\ history' = db.history
           /\ results' = Append(results, ResultOf(thread, work.result))
    /\ work' = NoWork
    /\ pc' = "api_delay"
    /\ UNCHANGED <<now, config, running, ready, idx, response, info>>

(* An exception between the two statements: conn.rollback(), and the   *)
(* exception leaves run_cycle for bump_loop's except clause.           *)
RecordAbort ==
    /\ pc = "record"
    /\ work' = [work EXCEPT !.state = "rolled_back"]
    /\ pc' = "error_sleep"
    /\ UNCHANGED <<now, config, threads, history, running, ready, idx, results,
                   response, info>>

(* StoreError with a fault seeded: bump_loop has no "except Exception" *)
(* and the exception ends it.                                          *)
StoreErrorEndsLoop ==
    /\ pc = "bump"
    /\ \E resp \in Responses :
       \E inf \in IF resp.status = 403 /\ resp.errors THEN Infos(now) ELSE {NoInfo} :
         /\ response' = resp
         /\ info' = inf
         /\ running' = RunningAfter(resp, running)
    /\ pc' = "done"
    /\ UNCHANGED <<now, config, threads, history, ready, idx, results, work>>

(* The Store call raises before its first statement takes effect. *)
StoreError ==
    /\ pc = "bump"
    /\ \E resp \in Responses :
       \E inf \in IF resp.status = 403 /\ resp.errors THEN Infos(now) ELSE {NoInfo} :
         /\ response' = resp
         /\ info' = inf
         /\ running' = RunningAfter(resp, running)
    /\ pc' = "error_sleep"
    /\ UNCHANGED <<now, config, threads, history, ready, idx, results, work>>

(* One run of the process. *)
Run ==
    \/ InitializeThreads
    \/ CycleStart
    \/ LoopExit
    \/ BumpReturns
    \/ NextDispatch
    \/ CycleBreak
    \/ CycleEnd
    \/ Signal

Next ==
    \/ Run
    \/ Restart

Spec == Init /\ [][Next]_vars

(* One run of the process on a Store whose calls may raise. *)
NextFault ==
    \/ Run
    \/ RecordUpdate
    \/ RecordCommit
    \/ RecordAbort
    \/ StoreError

SpecFault == Init /\ [][NextFault]_vars

(* ------------------------------------------------------------------ *)
(* Reconciliation on a Store left by earlier runs.                     *)
(* ------------------------------------------------------------------ *)

(* The time of the bump the earlier runs recorded for a stored thread. *)
EarlierBump == StartTime - BUMP_INTERVAL - JITTER_MAX

(* Rows an earlier run may have left: bumped once, then due or not,    *)
(* active or not, with or without failures since.                      *)
StoredRows(tid) ==
    {[DefaultRow(tid) EXCEPT !.title = "Title",
                             !.last_bump_time = EarlierBump,
                             !.next_bump_time = n,
                             !.bump_count = 1,
                             !.consecutive_failures = f,
                             !.last_error = IF f = 0 THEN "NULL" ELSE "Error 500",
                             !.is_active = a,
                             !.created_at = EarlierBump - API_DELAY,
                             !.updated_at = EarlierBump] :
        n \in {StartTime - API_DELAY, StartTime + BUMP_INTERVAL},
        f \in {0, MAX_CONSECUTIVE_FAILURES - 1},
        a \in {0, 1}}

Stores ==
    UNION {{th \in [ids -> UNION {StoredRows(tid) : tid \in ids}] :
                \A tid \in ids : th[tid].thread_id = tid} : ids \in SUBSET ThreadIds}

(* The success records of the stored threads, in thread_id order. *)
RECURSIVE StoredHistory(_)
StoredHistory(ids) ==
    IF ids = {} THEN <<>>
    ELSE LET tid == CHOOSE i \in ids : \A j \in ids : i <= j
         IN  <<[thread_id |-> tid, bump_time |-> EarlierBump,
                success |-> 1, message |-> "Bumped"]>>
             \o StoredHistory(ids \ {tid})

InitStored ==
    /\ now = StartTime
    /\ config \in SUBSET ThreadIds
    /\ threads \in Stores
    /\ history = StoredHistory(DOMAIN threads)
    /\ running = TRUE
    /\ pc = "start"
    /\ ready = <<>>
    /\ idx = 1
    /\ results = <<>>
    /\ response = NoResponse
    /\ info = NoInfo
    /\ work = NoWork

(* The process is started, reconciles, is stopped before its first     *)
(* cycle and started again.                                            *)
NextReconcile ==
    \/ InitializeThreads
    \/ Signal
    \/ LoopExit
    \/ Restart

SpecReconcile == InitStored /\ [][NextReconcile]_vars

(* ------------------------------------------------------------------ *)
(* Restarts on a Store whose threads were bumped by an earlier run.    *)
(* ------------------------------------------------------------------ *)

(* The earlier run bumped both threads one BUMP_INTERVAL before the    *)
(* start, with the least jitter.                                       *)
LastBump == StartTime - BUMP_INTERVAL

BumpedRow(tid, active) ==
    [DefaultRow(tid) EXCEPT !.title = "Title",
                            !.last_bump_time = LastBump,
                            !.next_bump_time = LastBump + BUMP_INTERVAL + JITTER_MIN,
                            !.bump_count = 1,
                            !.is_active = active,
                            !.created_at = LastBump - API_DELAY,
                            !.updated_at = LastBump]

(* Thread 2 may have left the configuration before the earlier run     *)
(* ended.                                                              *)
InitBumped ==
    /\ now = StartTime
    /\ config \in Configs
    /\ \E active \in {0, 1} :
         threads = [tid \in ThreadIds |->
                       BumpedRow(tid, IF tid = 1 THEN 1 ELSE active)]
    /\ history = [i \in 1..Cardinality(ThreadIds) |->
                     [thread_id |-> i, bump_time |-> LastBump,
                      success |-> 1, message |-> "Bumped"]]
    /\ running = TRUE
    /\ pc = "start"
    /\ ready = <<>>
    /\ idx = 1
    /\ results = <<>>
    /\ response = NoResponse
    /\ info = NoInfo
    /\ work = NoWork

SpecRestart == InitBumped /\ [][Next]_vars

(* ------------------------------------------------------------------ *)
(* The Store's upsert, called by any of its users.                     *)
(* ------------------------------------------------------------------ *)

(* The keyword arguments of the calls: the driver's own (title and     *)
(* next_bump_time; next_bump_time, last_error and                      *)
(* consecutive_failures) and calls that pass fewer fields.             *)
UpsertKwargs(t) ==
    { [title |-> "Title"],
      [title |-> "Title", next_bump_time |-> t + BUMP_INTERVAL],
      [last_error |-> "cooldown"],
      [next_bump_time |-> t + BUMP_INTERVAL, last_error |-> "cooldown",
       consecutive_failures |-> 0] }

Upsert ==
    /\ \E tid \in ThreadIds, kwargs \in UpsertKwargs(now) :
         threads' = upsert_thread(threads, tid, kwargs, now)
    /\ UNCHANGED <<now, config, history, running, pc, ready, idx, results,
                   response, info, work>>

NextStore ==
    \/ Upsert

SpecStore == InitStored /\ [][NextStore]_vars

(* ------------------------------------------------------------------ *)
(* Properties.                                                         *)
(* ------------------------------------------------------------------ *)

IsSuccess(resp) == resp.status = 200 /\ resp.ok
IsCooldown(resp) == resp.status = 403 /\ resp.errors
IsRateLimited(resp) == resp.status = 429
IsFatal(resp) == resp.status = 401
IsGenericFailure(resp) ==
    ~IsSuccess(resp) /\ ~IsCooldown(resp) /\ ~IsRateLimited(resp) /\ ~IsFatal(resp)

(* The step in which process_thread applies the outcome of a bump call, *)
(* and the state right after it, at the time of the outcome.            *)
Applies == pc = "bump" /\ pc' = "api_delay"
Applied == pc = "api_delay"

(* The thread being processed: its row of the ready list, its id and   *)
(* its row in the Store.                                               *)
Thread == ready[idx]
Tid == ready[idx].thread_id
Row == threads[ready[idx].thread_id]

(* C1: after every outcome other than the fatal one (success, cooldown *)
(* with or without a remote time, rate-limited, generic failure, too   *)
(* many failures) the stored next_bump_time is strictly greater than   *)
(* the time of the outcome.                                            *)
C1_MonotonicReadiness ==
    (Applied /\ ~IsFatal(response)) => Row.next_bump_time > now

(* C2: a rate-limited answer schedules now + 120 and does not count as *)
(* a consecutive failure.                                              *)
C2_RateLimited ==
    [][(Applies /\ IsRateLimited(response')) =>
        /\ threads'[Tid].next_bump_time = now + RATE_LIMIT_DELAY
        /\ threads'[Tid].consecutive_failures = threads[Tid].consecutive_failures
      ]_vars

(* C3: a success adds one to bump_count, zeroes consecutive_failures,  *)
(* clears last_error and schedules within                              *)
(* [now + BUMP_INTERVAL + 30, now + BUMP_INTERVAL + 300].              *)
C3_Success ==
    [][(Applies /\ IsSuccess(response')) =>
        /\ threads[Tid].is_active = 1
        /\ threads[Tid].next_bump_time <= now
        /\ threads'[Tid].bump_count = threads[Tid].bump_count + 1
        /\ threads'[Tid].consecutive_failures = 0
        /\ threads'[Tid].last_error = "NULL"
        /\ threads'[Tid].next_bump_time >= now + BUMP_INTERVAL + 30
        /\ threads'[Tid].next_bump_time <= now + BUMP_INTERVAL + 300
      ]_vars

C3_Witness ==
    /\ Applied
    /\ IsSuccess(response)
    /\ Thread.consecutive_failures > 0
    /\ Thread.last_error # "NULL"
    /\ Row.bump_count = 1
    /\ Row.next_bump_time = now + BUMP_INTERVAL + 300

(* The entry of the backoff table for a failure count f, counted from  *)
(* 0 as Python does: entry min(f, len - 1).                            *)
TableEntry(f) ==
    IF f >= Len(RETRY_DELAYS) THEN RETRY_DELAYS[Len(RETRY_DELAYS)]
    ELSE RETRY_DELAYS[f + 1]

(* C4: a generic failure that raises the count to f below the maximum  *)
(* stores f and schedules now + RETRY_DELAYS[min(f, len - 1)].         *)
C4_BackoffTable ==
    [][(Applies /\ IsGenericFailure(response')
          /\ threads[Tid].consecutive_failures + 1 < MAX_CONSECUTIVE_FAILURES) =>
        LET f == threads[Tid].consecutive_failures + 1
        IN  /\ threads'[Tid].consecutive_failures = f
            /\ threads'[Tid].next_bump_time - now = TableEntry(f)
      ]_vars

(* A second failure: f is the table's length, the delay its last entry. *)
C4_Witness ==
    /\ Applied
    /\ IsGenericFailure(response)
    /\ Thread.consecutive_failures = 1
    /\ Row.consecutive_failures = Len(RETRY_DELAYS)
    /\ Row.next_bump_time = now + RETRY_DELAYS[Len(RETRY_DELAYS)]

(* C5: a generic failure that brings the count to the maximum resets   *)
(* consecutive_failures to 0, schedules now + BUMP_INTERVAL and leaves *)
(* is_active as it was.                                                *)
C5_TooManyFailures ==
    [][(Applies /\ IsGenericFailure(response')
          /\ threads[Tid].consecutive_failures + 1 >= MAX_CONSECUTIVE_FAILURES) =>
        /\ threads'[Tid].consecutive_failures = 0
        /\ threads'[Tid].next_bump_time = now + BUMP_INTERVAL
        /\ threads'[Tid].is_active = threads[Tid].is_active
      ]_vars

C5_Witness ==
    /\ Applied
    /\ IsGenericFailure(response)
    /\ Thread.consecutive_failures = MAX_CONSECUTIVE_FAILURES - 1
    /\ Row.consecutive_failures = 0
    /\ Row.is_active = 1

(* C6: once a bump call has returned invalid-credential, running is    *)
(* false, the bump loop sends no further bump call (it is at one of    *)
(* its sleeps or has returned) and starts no further cycle (the        *)
(* results of the cycle still end with the fatal call's).              *)
C6_Fatal ==
    IsFatal(response) =>
        /\ ~running
        /\ pc \in {"api_delay", "check_interval", "done"}
        /\ results # <<>>
        /\ results[Len(results)].message = ""
        /\ ~results[Len(results)].success

(* The loop has returned and a thread of the ready list was left. *)
C6_Witness ==
    /\ IsFatal(response)
    /\ pc = "done"
    /\ Len(results) < Len(ready)

(* C7: record_bump_success and record_bump_failure are all or nothing: *)
(* in every step the committed schedule row of a thread takes the      *)
(* update of a record call exactly when the committed history takes    *)
(* its record, a success record with bump_count and a failure record   *)
(* with consecutive_failures, and a failure between the two statements *)
(* leaves both tables as they were.                                    *)
C7_RecordAtomic ==
    [][/\ \A tid \in DOMAIN threads :
            LET counted == threads'[tid].bump_count = threads[tid].bump_count + 1
                failed == threads'[tid].consecutive_failures
                              = threads[tid].consecutive_failures + 1
                appended == /\ Len(history') = Len(history) + 1
                            /\ history'[Len(history')].thread_id = tid
            IN  /\ (counted \/ failed) <=> appended
                /\ appended => (counted <=> history'[Len(history')].success = 1)
       /\ (pc = "record" /\ pc' = "error_sleep") => UNCHANGED <<threads, history>>
      ]_vars

(* After a failure between the statements: the row is the one the      *)
(* cycle read, though the transaction had changed it.                  *)
C7_Witness ==
    /\ pc = "error_sleep"
    /\ work.state = "rolled_back"
    /\ work.threads[Tid] # Row
    /\ Row = Thread
    /\ \A i \in 1..Len(history) : history[i].thread_id # Tid

(* C8: when a Store call raises while an outcome is applied, the       *)
(* thread's row is unchanged and the cycle goes on with the remaining  *)
(* threads of its ready list.                                          *)
C8_StorageFailureIsolation ==
    (pc = "error_sleep" /\ running) =>
        /\ Row = Thread
        /\ idx = Len(ready)

(* C9: the ready list is exactly the active threads that are due, in   *)
(* ascending order of next_bump_time, and the cycle's bump calls go    *)
(* out in the order of the list.                                       *)
C9_DispatchOrdering ==
    (pc \in {"bump", "api_delay"}) =>
        /\ \A i \in 1..Len(ready) :
              ready[i].is_active = 1 /\ ready[i].next_bump_time <= now
        /\ \A i, j \in 1..Len(ready) :
              i < j => ready[i].next_bump_time <= ready[j].next_bump_time
        /\ (pc = "bump" /\ idx = 1) =>
              /\ {ready[i].thread_id : i \in 1..Len(ready)} =
                    {t \in DOMAIN threads : threads[t].is_active = 1
                                            /\ threads[t].next_bump_time <= now}
              /\ \A i \in 1..Len(ready) : ready[i] = threads[ready[i].thread_id]
              /\ \A i, j \in 1..Len(ready) :
                    i # j => ready[i].thread_id # ready[j].thread_id
        /\ Len(results) = (IF pc = "bump" THEN idx - 1 ELSE idx)
        /\ \A i \in 1..Len(results) : results[i].thread_id = ready[i].thread_id

(* Thread 2 is due for longer than thread 1 and was sent first. *)
C9_Witness ==
    /\ pc = "api_delay"
    /\ idx = 2
    /\ ready[1].thread_id = 2
    /\ ready[2].thread_id = 1
    /\ ready[1].next_bump_time < ready[2].next_bump_time

(* C10: a cooldown schedules the remote's next-eligible time if there  *)
(* is one and now + BUMP_INTERVAL otherwise, zeroes                    *)
(* consecutive_failures and leaves bump_count.                         *)
C10_Cooldown ==
    [][(Applies /\ IsCooldown(response')) =>
        /\ threads'[Tid].next_bump_time =
              (IF info'.found /\ info'.next_available_time # 0
               THEN info'.next_available_time ELSE now + BUMP_INTERVAL)
        /\ threads'[Tid].consecutive_failures = 0
        /\ threads'[Tid].bump_count = threads[Tid].bump_count
      ]_vars

C10_Witness ==
    /\ Applied
    /\ IsCooldown(response)
    /\ info.found
    /\ Row.next_bump_time = info.next_available_time
    /\ Row.next_bump_time > now + BUMP_INTERVAL
    /\ Thread.consecutive_failures > 0
    /\ Row.consecutive_failures = 0

(* The step of bump_loop that runs initialize_threads. *)
Reconciles == pc = "start" /\ pc' = "loop"

(* What a reconciliation is compared on: the rows there are and each   *)
(* row's is_active, consecutive_failures and next_bump_time.           *)
Schedule(th) ==
    [tid \in DOMAIN th |->
        <<th[tid].is_active, th[tid].consecutive_failures, th[tid].next_bump_time>>]

(* C11: running initialize_threads again on the Store a reconciliation *)
(* has left, with the same configured set and whatever the remote      *)
(* answers, leaves the rows and their is_active, consecutive_failures  *)
(* and next_bump_time as the first run left them.                      *)
C11_IdempotentReconciliation ==
    [][Reconciles =>
        \A infos \in [config -> Infos(now')] :
            Schedule(initialize_threads(threads', config, infos, now').threads)
                = Schedule(threads')
      ]_vars

(* The first run added thread 1 and deactivated thread 2. *)
C11_Witness ==
    /\ pc = "loop"
    /\ config = {1}
    /\ DOMAIN threads = {1, 2}
    /\ threads[1].created_at = StartTime
    /\ threads[2].is_active = 0
    /\ threads[2].updated_at = StartTime + API_DELAY

(* C12: after a reconciliation every thread of the Store that is not   *)
(* configured is inactive, with its row and the history kept, and      *)
(* every configured thread that was stored inactive is active with     *)
(* consecutive_failures 0.                                             *)
C12_Reactivation ==
    [][Reconciles =>
        /\ history' = history
        /\ \A tid \in DOMAIN threads' \ config : threads'[tid].is_active = 0
        /\ \A tid \in DOMAIN threads :
              /\ tid \in DOMAIN threads'
              /\ tid \notin config =>
                    threads'[tid] = [threads[tid] EXCEPT
                                        !.is_active = 0,
                                        !.updated_at = threads'[tid].updated_at]
              /\ (tid \in config /\ threads[tid].is_active = 0) =>
                    /\ threads'[tid].is_active = 1
                    /\ threads'[tid].consecutive_failures = 0
      ]_vars

(* Thread 2, stored inactive with failures, is active again and thread *)
(* 1 has left the configuration.                                       *)
C12_Witness ==
    /\ pc = "loop"
    /\ config = {2}
    /\ DOMAIN threads = {1, 2}
    /\ threads[2].is_active = 1
    /\ threads[2].consecutive_failures = 0
    /\ threads[2].last_error = "Error 500"
    /\ threads[2].updated_at = StartTime
    /\ threads[1].is_active = 0
    /\ threads[1].updated_at = StartTime
    /\ Len(history) = 2

(* C13: upsert_thread on a thread_id that is absent creates exactly    *)
(* one row; a field the caller does not pass takes its default,        *)
(* next_bump_time the time of creation, consecutive_failures 0 and     *)
(* is_active 1, and created_at and updated_at are stamped.             *)
C13_UpsertDefaults ==
    [][\A tid \in ThreadIds \ DOMAIN threads, kwargs \in UpsertKwargs(now) :
          threads' = upsert_thread(threads, tid, kwargs, now) =>
            /\ DOMAIN threads' = DOMAIN threads \cup {tid}
            /\ \A x \in DOMAIN threads : threads'[x] = threads[x]
            /\ \A c \in DOMAIN kwargs : threads'[tid][c] = kwargs[c]
            /\ "next_bump_time" \notin DOMAIN kwargs =>
                    threads'[tid].next_bump_time = now
            /\ "consecutive_failures" \notin DOMAIN kwargs =>
                    threads'[tid].consecutive_failures = 0
            /\ threads'[tid].is_active = 1
            /\ threads'[tid].created_at = now
            /\ threads'[tid].updated_at = now
      ]_vars

(* C14: a bump call is only ever sent for a thread that is active in   *)
(* the Store, and a step that deactivates a thread leaves the history  *)
(* and the thread's other columns (but updated_at) as they were.       *)
C14_InactiveNeverDispatched ==
    [][/\ pc' = "bump" => threads'[ready'[idx'].thread_id].is_active = 1
       /\ \A tid \in DOMAIN threads :
             (threads[tid].is_active = 1 /\ threads'[tid].is_active = 0) =>
                /\ history' = history
                /\ threads'[tid] = [threads[tid] EXCEPT
                                      !.is_active = 0,
                                      !.updated_at = threads'[tid].updated_at]
      ]_vars

(* Thread 2 is inactive, due and has history; the call goes to thread  *)
(* 1.                                                                  *)
C14_Witness ==
    /\ pc = "bump"
    /\ Tid = 1
    /\ Len(ready) = 1
    /\ 2 \in DOMAIN threads
    /\ threads[2].is_active = 0
    /\ threads[2].next_bump_time <= now
    /\ \E i \in 1..Len(history) : history[i].thread_id = 2

(* C15: while running is false the loop sends no new bump call, in the *)
(* cycle it is in or in a later one, and a bump call that is in flight *)
(* returns and has its outcome applied to its thread.                  *)
C15_Shutdown ==
    [][/\ (~running /\ pc # "bump") => pc' # "bump"
       /\ (~running /\ pc = "bump") =>
             /\ pc' = "api_delay"
             /\ results' = Append(results, results'[Len(results')])
             /\ results'[Len(results')].thread_id = Tid
             /\ threads'[Tid].updated_at = now
      ]_vars

(* The signal has ended a cycle after an outcome was applied, with a   *)
(* thread of the ready list left.                                      *)
C15_Witness ==
    /\ pc = "check_interval"
    /\ ~running
    /\ ~IsFatal(response)
    /\ results # <<>>
    /\ Len(results) < Len(ready)
    /\ threads[ready[Len(results)].thread_id].updated_at = now - API_DELAY

(* C16: an exception of a cycle does not end the bump loop: the loop   *)
(* returns only at its while test with running false, the exception    *)
(* leaves running as it was unless the bump call was answered          *)
(* invalid-credential, and the loop's next step after the sleep of 60  *)
(* seconds, while running is true, starts a cycle.                     *)
C16_LoopResilience ==
    [][/\ (pc # "done" /\ pc' = "done") => (AtLoopTest /\ ~running)
       /\ (pc # "error_sleep" /\ pc' = "error_sleep" /\ ~IsFatal(response')) =>
             running' = running
       /\ (pc = "error_sleep" /\ running /\ pc' # "error_sleep") =>
             /\ pc' \in {"bump", "check_interval"}
             /\ now' = now + LOOP_ERROR_SLEEP
             /\ running'
             /\ idx' = 1
             /\ results' = <<>>
      ]_vars

(* A cycle started after the sleep is at its first bump call; no       *)
(* outcome was written, the call before it ended in the exception.     *)
C16_Witness ==
    /\ pc = "bump"
    /\ running
    /\ idx = 1
    /\ response # NoResponse
    /\ now >= StartTime + LOOP_ERROR_SLEEP
    /\ \A tid \in DOMAIN threads : threads[tid].updated_at = threads[tid].created_at

(* C17: a bump call answered invalid-credential leaves the dispatched  *)
(* thread's consecutive_failures, next_bump_time, last_error and       *)
(* bump_count as they were and appends no history record.              *)
C17_FatalLeavesThread ==
    [][(Applies /\ IsFatal(response')) =>
        /\ threads'[Tid].consecutive_failures = threads[Tid].consecutive_failures
        /\ threads'[Tid].next_bump_time = threads[Tid].next_bump_time
        /\ threads'[Tid].last_error = threads[Tid].last_error
        /\ threads'[Tid].bump_count = threads[Tid].bump_count
        /\ history' = history
      ]_vars

(* C18: in every state every stored thread's consecutive_failures is   *)
(* in 0 .. MAX_CONSECUTIVE_FAILURES - 1.                               *)
C18_FailureCounterBound ==
    \A tid \in DOMAIN threads :
        threads[tid].consecutive_failures \in 0..(MAX_CONSECUTIVE_FAILURES - 1)

(* Thread 2 was deactivated at the largest count. *)
C18_Witness ==
    /\ 2 \in DOMAIN threads
    /\ threads[2].is_active = 0
    /\ threads[2].consecutive_failures = MAX_CONSECUTIVE_FAILURES - 1

(* The history records of a thread with a given success flag. *)
Records(hist, tid, success) ==
    {i \in 1..Len(hist) : hist[i].thread_id = tid /\ hist[i].success = success}

(* C19: every dispatch that ends in a success or a generic failure,    *)
(* the failure that brings the count to MAX_CONSECUTIVE_FAILURES       *)
(* included, appends exactly one history record for its thread whose   *)
(* success flag is the outcome's, and each thread has as many success  *)
(* records as its bump_count.                                          *)
C19_HistoryCompleteness ==
    [][(Applies /\ (IsSuccess(response') \/ IsGenericFailure(response'))) =>
        /\ Len(history') = Len(history) + 1
        /\ SubSeq(history', 1, Len(history)) = history
        /\ history'[Len(history')].thread_id = Tid
        /\ history'[Len(history')].success = (IF IsSuccess(response') THEN 1 ELSE 0)
        /\ \A tid \in DOMAIN threads' :
              Cardinality(Records(history', tid, 1)) = threads'[tid].bump_count
      ]_vars

(* C20: a reconciliation leaves next_bump_time, bump_count and         *)
(* last_bump_time of every stored thread as they were, and no bump     *)
(* call is sent for a thread earlier than BUMP_INTERVAL + 30 seconds   *)
(* after its last successful bump, whatever restarts and               *)
(* reconciliations come in between.                                    *)
C20_RestartDoesNotDoubleBump ==
    [][/\ Reconciles =>
             \A tid \in DOMAIN threads :
                /\ tid \in DOMAIN threads'
                /\ threads'[tid].next_bump_time = threads[tid].next_bump_time
                /\ threads'[tid].bump_count = threads[tid].bump_count
                /\ threads'[tid].last_bump_time = threads[tid].last_bump_time
       /\ pc' = "bump" =>
             LET row == threads'[ready'[idx'].thread_id]
             IN  row.bump_count > 0 =>
                    now' >= row.last_bump_time + BUMP_INTERVAL + JITTER_MIN
      ]_vars

(* Thread 2 was bumped by the earlier run, was reactivated by a start  *)
(* of the process and gets its next bump call when its time has come  *)
(* (after thread 1, due at the same time), not at the start.           *)
C20_Witness ==
    /\ pc = "bump"
    /\ Tid = 2
    /\ Row.bump_count = 1
    /\ Row.last_bump_time = LastBump
    /\ Row.updated_at = StartTime
    /\ Row.next_bump_time = LastBump + BUMP_INTERVAL + JITTER_MIN
    /\ now = Row.next_bump_time + API_DELAY

(* A thread waits for d seconds: it is active, has been due for d      *)
(* seconds and no outcome was applied to it in that time (every        *)
(* branch of process_thread stamps updated_at).                        *)
Waits(tid, d) ==
    /\ threads[tid].is_active = 1
    /\ threads[tid].next_bump_time + d <= now
    /\ threads[tid].updated_at + d <= now

(* The bump calls the cycle that is over has sent: the for loop came   *)
(* to position idx of its ready list.                                  *)
Called == {ready[i].thread_id : i \in 1..Min(idx, Len(ready))}

(* C21: while the driver keeps running and cycles keep being started,  *)
(* every active thread that is due is dispatched, however the          *)
(* dispatches of the threads before it end; in the form a finite run   *)
(* decides: when a cycle is over and running is true, a thread that    *)
(* has waited for as long as the longest sleep between two cycles was  *)
(* sent a bump call in that cycle.                                     *)
C21_NoStarvation ==
    (pc \in {"check_interval", "error_sleep"} /\ running) =>
        \A tid \in DOMAIN threads :
            Waits(tid, LOOP_ERROR_SLEEP) => tid \in Called

====
